---- MODULE Spec2Model ----
(***************************************************************************)
(* Model of src/task/keyboard.rs: the keyboard scancode channel.           *)
(*                                                                         *)
(* add_scancode is the body of the keyboard interrupt handler: it runs to  *)
(* completion and may run between any two steps of a consumer's code.      *)
(* Consumers are cooperative tasks: the steps of one ScancodeStream::new   *)
(* or one poll_next are never interleaved with those of another consumer.  *)
(* Every push and pop of an ArrayQueue is one atomic step.                 *)
(*                                                                         *)
(* The history variables record what the properties speak of.  Each        *)
(* specification records only the observations in the set `o` its          *)
(* next-state relation is given, a set of pairs <<what, consumer>>; the    *)
(* other history variables keep their initial value.  The code never       *)
(* looks at the identity of a consumer, so what holds of the observed      *)
(* consumer holds of each.                                                 *)
(***************************************************************************)
EXTENDS Integers, Sequences, FiniteSets, TLC

\* ---- bounds of the model ----
\* tasks that own a ScancodeStream
NumConsumers == 3
\* capacity of both ArrayQueues (ArrayQueue::new(100) in the source); smaller
\* than NumConsumers so that both queues can overflow
Capacity == 2
\* add_scancode calls in one behaviour
MaxEvents == 3

Consumers == 1..NumConsumers
Scancodes == {30, 158}

VARIABLES
    scancode_init,    \* SCANCODE_QUEUE OnceCell is initialized
    waker_init,       \* WAKER_QUEUE OnceCell is initialized
    scancode_queue,   \* contents of SCANCODE_QUEUE, head first; every byte
                      \* is tagged with the add_scancode call that pushed it
    waker_queue,      \* contents of WAKER_QUEUE, head first
    pc,               \* per consumer: where its task stands
    notified,         \* per consumer: its task waker was invoked and the
                      \* executor has not dispatched the task since
    panicked,         \* an expect() failed: the kernel has halted
    produced,         \* number of add_scancode calls that got past the expects
    \* ---- history variables (observations, never read by the program) ----
    warnings,         \* "diagnostics": number of "WARNING: scancode queue
                      \* full" lines printed, per println! site
    no_wakers,        \* "diagnostics": number of "No Wakers to wake" lines
    recent,           \* "results": per consumer, the events whose copies its
                      \* last two Ready results carried, oldest first
    registrations,    \* "wakes": per consumer, number of AtomicWakers created
    wake_count,       \* "wakes": per AtomicWaker woken, times wake() was
                      \* invoked on it
    gap_event,        \* "gap": per consumer, the add_scancode call that ran
                      \* between step 1 and step 2 of its current/last poll
                      \* (0 none, -1 more than one)
    owed,             \* "owed": per consumer, events at whose add_scancode
                      \* call it had a handle in the registry and the queue
                      \* had room, and that no Ready result of it carried yet
    interested,       \* "interest": per consumer, a poll returned Pending
    last_call,        \* "calls": of the latest add_scancode call, the handles
                      \* in the registry at entry, the iterations of its
                      \* drain loop and the copies it dropped; "inert": the
                      \* handles of cancelled consumers among those at entry
    last_ready        \* "returned": the latest Poll::Ready(Some(scancode)),
                      \* the consumer it went to, the call that pushed it
                      \* and the pop of poll_next that took it

vars == <<scancode_init, waker_init, scancode_queue, waker_queue, pc, notified,
          panicked, produced, warnings, no_wakers, recent, registrations,
          wake_count, gap_event, owed, interested, last_call, last_ready>>

hist == <<warnings, no_wakers, recent, registrations, wake_count, gap_event,
          owed, interested, last_call, last_ready>>

\* ---- observations ----
\* what is observed of every consumer, of one consumer, of the program
OfAll(what) == {<<what, c>> : c \in Consumers}

Of(what, c) == {<<what, c>>}

Program(what) == {<<what, 0>>}

\* the value a history variable takes: recorded only when observed
Record(o, what, new, old) == IF <<what, 0>> \in o THEN new ELSE old

\* the same for the entry of consumer c in a per-consumer history variable
RecordOf(o, what, c, f, v) ==
    IF <<what, c>> \in o THEN [f EXCEPT ![c] = v] ELSE f

\* the same for all consumers at once, g the fully recorded value
RecordAll(o, what, g, f) ==
    [c \in Consumers |-> IF <<what, c>> \in o THEN g[c] ELSE f[c]]

\* ---- crossbeam ArrayQueue with the capacity given to ArrayQueue::new ----

\* ArrayQueue::push: Err (contents unchanged) when full
ArrayQueuePushOk(q) == Len(q) < Capacity

PushUnbounded(q, x) == Append(q, x)

PushFront(q, x) == IF ArrayQueuePushOk(q) THEN <<x>> \o q ELSE q

ArrayQueuePush(q, x) == IF ArrayQueuePushOk(q) THEN Append(q, x) ELSE q

\* ArrayQueue::pop: Err when empty, otherwise the head
ArrayQueuePopOk(q) == Len(q) > 0

PopNewest(q) == q[Len(q)]

ArrayQueuePopItem(q) == Head(q)

ArrayQueuePopRest(q) == Tail(q)

\* ---- helpers over sequences ----
TasksOf(s) == {s[i].task : i \in 1..Len(s)}

Copies(q, e) == Cardinality({i \in 1..Len(q) : q[i].event = e})

\* the last two Ready results of a consumer, after one more
Returned(r, item) ==
    IF Len(r) < 2 THEN Append(r, item.event) ELSE <<r[2], item.event>>

\* ---- the consumer's position ----
\* "new"      task spawned, ScancodeStream::new not yet called
\* "new2"     between the two init_once calls of ScancodeStream::new
\* "ready"    not inside poll_next; the task goes on to call poll_next
\* "register" inside poll_next, fast-path pop found the queue empty
\* "recheck"  inside poll_next, handle pushed (or push failed)
\* "cleanup"  inside poll_next, re-check popped a scancode
\* "pending"  poll_next returned Pending; the task is with the executor
\* "cancelled" the task and its ScancodeStream were dropped
MidOperation(c) == pc[c] \in {"new2", "register", "recheck", "cleanup"}

NoOtherRunning(c) == \A d \in Consumers \ {c} : ~MidOperation(d)

Init ==
    /\ scancode_init = FALSE
    /\ waker_init = FALSE
    /\ scancode_queue = <<>>
    /\ waker_queue = <<>>
    /\ pc = [c \in Consumers |-> "new"]
    /\ notified = [c \in Consumers |-> FALSE]
    /\ panicked = FALSE
    /\ produced = 0
    /\ warnings = [add_scancode |-> 0, poll_next |-> 0]
    /\ no_wakers = 0
    /\ recent = [c \in Consumers |-> <<>>]
    /\ registrations = [c \in Consumers |-> 0]
    /\ wake_count = <<>>
    /\ gap_event = [c \in Consumers |-> 0]
    /\ owed = [c \in Consumers |-> {}]
    /\ interested = [c \in Consumers |-> FALSE]
    /\ last_call = [handles |-> 0, iterations |-> 0, dropped |-> 0,
                    inert |-> 0]
    /\ last_ready = [task |-> 0, scancode |-> 0, event |-> 0, path |-> "none"]

\* the executor has dropped the task of c: its waker does nothing
Cancelled(c) == pc[c] = "cancelled"

\* ---- add_scancode: the interrupt handler ----

\* one iteration of `while let Ok(waker) = waker_queue.pop()`
DrainStep(st, item) ==
    IF ArrayQueuePushOk(st.sq)
    THEN [wq |-> ArrayQueuePopRest(st.wq),
          sq |-> ArrayQueuePush(st.sq, item),
          woken |-> Append(st.woken, ArrayQueuePopItem(st.wq)),
          dropped |-> st.dropped,
          iterations |-> st.iterations + 1]
    ELSE [wq |-> ArrayQueuePopRest(st.wq),
          sq |-> ArrayQueuePush(st.sq, item),
          woken |-> st.woken,
          dropped |-> st.dropped + 1,
          iterations |-> st.iterations + 1]

DrainOne(st, item) ==
    IF ArrayQueuePopOk(st.wq) THEN DrainStep(st, item) ELSE st

RECURSIVE DrainWhileRoom(_, _)
DrainWhileRoom(st, item) ==
    IF ArrayQueuePopOk(st.wq) /\ ArrayQueuePushOk(st.sq)
    THEN DrainWhileRoom(DrainStep(st, item), item) ELSE st

\* the whole loop
RECURSIVE Drain(_, _)
Drain(st, item) ==
    IF ArrayQueuePopOk(st.wq) THEN Drain(DrainStep(st, item), item) ELSE st

DrainStart == [wq |-> waker_queue, sq |-> scancode_queue, woken |-> <<>>,
               dropped |-> 0, iterations |-> 0]

\* AtomicWaker::wake, counted per handle of an observed consumer
RECURSIVE WakeAll(_, _, _)
WakeAll(f, hs, o) ==
    IF hs = <<>> THEN f
    ELSE LET id == Head(hs)
             g == IF <<"wakes", id.task>> \notin o THEN f
                  ELSE IF id \in DOMAIN f THEN [f EXCEPT ![id] = @ + 1]
                  ELSE f @@ (id :> 1)
         IN WakeAll(g, Tail(hs), o)

OnlyScancodeQueueInitialized == scancode_init

\* the expects at the top of add_scancode (and of poll_next)
QueuesInitialized == scancode_init /\ waker_init

AddScancodeUninit(sc) ==
    /\ ~panicked
    /\ produced < MaxEvents
    /\ ~QueuesInitialized
    /\ panicked' = TRUE
    /\ UNCHANGED <<scancode_init, waker_init, scancode_queue, waker_queue, pc,
                   notified, produced, hist>>

AddScancode(sc, o) ==
    /\ ~panicked
    /\ produced < MaxEvents
    /\ QueuesInitialized
    /\ LET e == produced + 1
           st == Drain(DrainStart, [scancode |-> sc, event |-> e])
           registered == TasksOf(waker_queue)
           room == Capacity - Len(scancode_queue) >= Cardinality(registered)
       IN /\ waker_queue' = st.wq
          /\ scancode_queue' = st.sq
          /\ notified' = [c \in Consumers |->
                notified[c] \/ (c \in TasksOf(st.woken) /\ ~Cancelled(c))]
          /\ produced' = e
          /\ warnings' = Record(o, "diagnostics",
                [warnings EXCEPT !.add_scancode = @ + st.dropped], warnings)
          /\ wake_count' = WakeAll(wake_count, st.woken, o)
          /\ gap_event' = RecordAll(o, "gap",
                [c \in Consumers |->
                    IF pc[c] = "register"
                    THEN (IF gap_event[c] = 0 THEN e ELSE -1)
                    ELSE gap_event[c]], gap_event)
          /\ owed' = RecordAll(o, "owed",
                [c \in Consumers |->
                    IF c \in registered /\ room
                    THEN owed[c] \cup {e} ELSE owed[c]], owed)
          /\ last_call' = Record(o, "inert",
                [last_call EXCEPT !.inert =
                    Cardinality({i \in 1..Len(waker_queue) :
                                   Cancelled(waker_queue[i].task)})],
                Record(o, "calls",
                   [handles |-> Len(waker_queue),
                    iterations |-> st.iterations,
                    dropped |-> st.dropped, inert |-> 0], last_call))
    /\ UNCHANGED <<scancode_init, waker_init, pc, panicked, no_wakers,
                   recent, registrations, interested, last_ready>>

\* ---- ScancodeStream::new ----

InitAlways(initialized, q) == <<>>

\* OnceCell::init_once(|| ArrayQueue::new(..)): runs the closure only once
InitOnce(initialized, q) == IF initialized THEN q ELSE <<>>

NewScancodeQueue(c) ==
    /\ ~panicked
    /\ pc[c] = "new"
    /\ NoOtherRunning(c)
    /\ scancode_queue' = InitOnce(scancode_init, scancode_queue)
    /\ scancode_init' = TRUE
    /\ pc' = [pc EXCEPT ![c] = "new2"]
    /\ UNCHANGED <<waker_init, waker_queue, notified, panicked, produced, hist>>

NewWakerQueue(c) ==
    /\ ~panicked
    /\ pc[c] = "new2"
    /\ waker_queue' = InitOnce(waker_init, waker_queue)
    /\ waker_init' = TRUE
    /\ pc' = [pc EXCEPT ![c] = "ready"]
    /\ UNCHANGED <<scancode_init, scancode_queue, notified, panicked, produced,
                   hist>>

\* ---- ScancodeStream::poll_next ----

\* the task calls poll_next: it goes on after a Ready, or the executor
\* dispatches it after a Pending because its waker was invoked
CanPoll(c) == pc[c] = "ready" \/ (pc[c] = "pending" /\ notified[c])

Dispatch(c) == [notified EXCEPT ![c] = IF pc[c] = "pending" THEN FALSE ELSE @]

\* a pop of the scancode queue by c that succeeds: the value poll_next
\* returns as Poll::Ready(Some(scancode)) is taken here
PopScancode(c, o) ==
    /\ ArrayQueuePopOk(scancode_queue)
    /\ scancode_queue' = ArrayQueuePopRest(scancode_queue)
    /\ recent' = RecordOf(o, "results", c, recent,
          Returned(recent[c], ArrayQueuePopItem(scancode_queue)))
    /\ owed' = RecordOf(o, "owed", c, owed,
          owed[c] \ {ArrayQueuePopItem(scancode_queue).event})
    /\ last_ready' = Record(o, "returned",
          [task |-> c,
           scancode |-> ArrayQueuePopItem(scancode_queue).scancode,
           event |-> ArrayQueuePopItem(scancode_queue).event,
           path |-> IF pc[c] = "recheck" THEN "recheck" ELSE "fast"],
          last_ready)

\* fast path, queue not empty: return Poll::Ready(Some(scancode))
PollFastReady(c, o) ==
    /\ ~panicked
    /\ CanPoll(c)
    /\ NoOtherRunning(c)
    /\ PopScancode(c, o)
    /\ pc' = [pc EXCEPT ![c] = "ready"]
    /\ notified' = Dispatch(c)
    /\ gap_event' = RecordOf(o, "gap", c, gap_event, 0)
    /\ UNCHANGED <<scancode_init, waker_init, waker_queue, panicked, produced,
                   warnings, no_wakers, registrations, wake_count, interested,
                   last_call>>

\* fast path, queue empty: fall through to the slow path
PollFastEmpty(c, o) ==
    /\ ~panicked
    /\ CanPoll(c)
    /\ NoOtherRunning(c)
    /\ ~ArrayQueuePopOk(scancode_queue)
    /\ pc' = [pc EXCEPT ![c] = "register"]
    /\ notified' = Dispatch(c)
    /\ gap_event' = RecordOf(o, "gap", c, gap_event, 0)
    /\ UNCHANGED <<scancode_init, waker_init, scancode_queue, waker_queue,
                   panicked, produced, warnings, no_wakers, recent,
                   registrations, wake_count, owed, interested, last_call,
                   last_ready>>

ReusedWaker(c) == [task |-> c, reg |-> 1]

\* AtomicWaker::new() and register(&cx.waker()): a fresh handle of this task
NewWaker(c) == [task |-> c, reg |-> registrations[c] + 1]

\* slow path: push the handle, warn when the registry is full
PollRegister(c, o) ==
    /\ ~panicked
    /\ pc[c] = "register"
    /\ waker_queue' = ArrayQueuePush(waker_queue, NewWaker(c))
    /\ warnings' = Record(o, "diagnostics",
          IF ArrayQueuePushOk(waker_queue) THEN warnings
          ELSE [warnings EXCEPT !.poll_next = @ + 1], warnings)
    /\ registrations' = RecordOf(o, "wakes", c, registrations,
          registrations[c] + 1)
    /\ pc' = [pc EXCEPT ![c] = "recheck"]
    /\ UNCHANGED <<scancode_init, waker_init, scancode_queue, notified,
                   panicked, produced, no_wakers, recent, wake_count,
                   gap_event, owed, interested, last_call, last_ready>>

\* re-check, Ok(scancode)
PollRecheckOk(c, o) ==
    /\ ~panicked
    /\ pc[c] = "recheck"
    /\ PopScancode(c, o)
    /\ pc' = [pc EXCEPT ![c] = "cleanup"]
    /\ UNCHANGED <<scancode_init, waker_init, waker_queue, notified, panicked,
                   produced, warnings, no_wakers, registrations, wake_count,
                   gap_event, interested, last_call>>

\* re-check, Err(PopError): return Poll::Pending
PollRecheckPending(c, o) ==
    /\ ~panicked
    /\ pc[c] = "recheck"
    /\ ~ArrayQueuePopOk(scancode_queue)
    /\ pc' = [pc EXCEPT ![c] = "pending"]
    /\ interested' = RecordOf(o, "interest", c, interested, TRUE)
    /\ UNCHANGED <<scancode_init, waker_init, scancode_queue, waker_queue,
                   notified, panicked, produced, warnings, no_wakers, recent,
                   registrations, wake_count, gap_event, owed, last_call,
                   last_ready>>

\* after a successful re-check: pop a handle and take() it without waking,
\* or print "No Wakers to wake"; then return Poll::Ready(Some(scancode))
PollCleanup(c, o) ==
    /\ ~panicked
    /\ pc[c] = "cleanup"
    /\ IF ArrayQueuePopOk(waker_queue)
       THEN /\ waker_queue' = ArrayQueuePopRest(waker_queue)
            /\ no_wakers' = no_wakers
       ELSE /\ waker_queue' = waker_queue
            /\ no_wakers' = Record(o, "diagnostics", no_wakers + 1, no_wakers)
    /\ pc' = [pc EXCEPT ![c] = "ready"]
    /\ UNCHANGED <<scancode_init, waker_init, scancode_queue, notified,
                   panicked, produced, warnings, recent, registrations,
                   wake_count, gap_event, owed, interested, last_call,
                   last_ready>>

\* ---- cancellation ----

\* the executor drops the task of c, and with it its ScancodeStream, while
\* no task is running; nothing of the channel is touched (ScancodeStream
\* has no Drop code)
Cancel(c) ==
    /\ ~panicked
    /\ pc[c] \in {"ready", "pending"}
    /\ NoOtherRunning(c)
    /\ pc' = [pc EXCEPT ![c] = "cancelled"]
    /\ UNCHANGED <<scancode_init, waker_init, scancode_queue, waker_queue,
                   notified, panicked, produced, hist>>

\* the program, recording the observations named in o
NextObserving(o) ==
    \/ \E sc \in Scancodes : AddScancodeUninit(sc)
    \/ \E sc \in Scancodes : AddScancode(sc, o)
    \/ \E c \in Consumers : NewScancodeQueue(c)
    \/ \E c \in Consumers : NewWakerQueue(c)
    \/ \E c \in Consumers : PollFastReady(c, o)
    \/ \E c \in Consumers : PollFastEmpty(c, o)
    \/ \E c \in Consumers : PollRegister(c, o)
    \/ \E c \in Consumers : PollRecheckOk(c, o)
    \/ \E c \in Consumers : PollRecheckPending(c, o)
    \/ \E c \in Consumers : PollCleanup(c, o)

Next == NextObserving({})

Spec == Init /\ [][Next]_vars

NextResults == NextObserving(Of("results", 1))

SpecResults == Init /\ [][NextResults]_vars

NextGap == NextObserving(OfAll("gap") \cup OfAll("results"))

SpecGap == Init /\ [][NextGap]_vars

NextOwed == NextObserving(OfAll("owed"))

SpecOwed == Init /\ [][NextOwed]_vars

NextInterest == NextObserving(OfAll("interest") \cup Program("diagnostics"))

SpecInterest == Init /\ [][NextInterest]_vars

NextDiagnostics == NextObserving(Program("diagnostics"))

SpecDiagnostics == Init /\ [][NextDiagnostics]_vars

NextWakes == NextObserving(Of("wakes", 1))

SpecWakes == Init /\ [][NextWakes]_vars

\* the program with tasks being cancelled
NextCancel ==
    \/ NextObserving(Program("inert"))
    \/ \E c \in Consumers : Cancel(c)

SpecCancel == Init /\ [][NextCancel]_vars

NextCalls == NextObserving(Program("calls") \cup Program("diagnostics"))

SpecCalls == Init /\ [][NextCalls]_vars

NextReturned == NextObserving(Program("returned"))

SpecReturned == Init /\ [][NextReturned]_vars

TypeOK ==
    /\ scancode_init \in BOOLEAN /\ waker_init \in BOOLEAN
    /\ panicked \in BOOLEAN
    /\ produced \in 0..MaxEvents
    /\ \A c \in Consumers : pc[c] \in {"new", "new2", "ready", "register",
                                        "recheck", "cleanup", "pending",
                                        "cancelled"}

\* ---- what the claims speak of ----

\* a step of add_scancode that got past its expects
AddScancodeStep == produced' = produced + 1

\* poll_next of c has returned and c has not called it again
PollReturned(c) == pc[c] \in {"ready", "pending"}

\* c is suspended: its poll returned Pending and its waker was not invoked
Suspended(c) == pc[c] = "pending" /\ ~notified[c]

\* the event carried by the latest Ready result of c (0: none yet)
LastGot(c) == IF recent[c] = <<>> THEN 0 ELSE recent[c][Len(recent[c])]

\* the event carried by the Ready result of c before that (0: none)
PrevGot(c) == IF Len(recent[c]) < 2 THEN 0 ELSE recent[c][1]

NoOverflow == warnings.add_scancode = 0 /\ warnings.poll_next = 0

\* C1: no lost wakeup. When exactly one add_scancode call ran between the
\* fast-path pop and the registry push of a poll of c, then once that poll
\* has returned, it has returned that scancode, or c has been woken and a
\* copy of it is still queued for a later poll.
C1_NoLostWakeup ==
    \A c \in Consumers :
        (gap_event[c] > 0 /\ PollReturned(c)) =>
            \/ LastGot(c) = gap_event[c]
            \/ (notified[c] /\ Copies(scancode_queue, gap_event[c]) > 0)

\* C2: delivery with no waiters. An add_scancode call that finds the waker
\* registry empty and the scancode queue not full leaves at least one copy
\* of its scancode in the queue.
C2_DeliveryNoWaiters ==
    [][(AddScancodeStep /\ waker_queue = <<>> /\ ArrayQueuePushOk(scancode_queue))
          => Copies(scancode_queue', produced') >= 1]_vars

\* C3: fan-out. For every event at whose add_scancode call K consumers had
\* a handle in the registry and the queue had K free slots, each of the K
\* gets a copy: at any time the consumers among them that have not yet got
\* it are no more than the copies still queued.
C3_FanOut ==
    \A e \in 1..produced :
        Cardinality({c \in Consumers : e \in owed[c]})
            <= Copies(scancode_queue, e)

\* C4: every later scancode is delivered. Once a poll of some consumer has
\* returned Pending, every add_scancode call that finds room in the
\* scancode queue leaves a copy of its scancode there for that consumer
\* (copies are queued by that call only, so without one the consumer can
\* never be given the scancode).
C4_LaterScancodesDelivered ==
    [][(/\ AddScancodeStep
        /\ \E c \in Consumers : interested[c]
        /\ NoOverflow
        /\ ArrayQueuePushOk(scancode_queue))
          => Copies(scancode_queue', produced') >= 1]_vars

\* C5: no duplication. A Ready result of a consumer never carries the
\* production event that its previous Ready result carried (results are
\* observed of consumer 1).
C5_NoDuplication ==
    \A c \in Consumers : Len(recent[c]) = 2 => PrevGot(c) # LastGot(c)

\* C6: FIFO per consumer. The Ready results of one consumer are ordered by
\* production: a result never carries an earlier event than the result
\* before it (results are observed of consumer 1).
C6_FifoPerConsumer ==
    \A c \in Consumers : PrevGot(c) <= LastGot(c)

C6_Witness ==
    \E c \in Consumers : 0 < PrevGot(c) /\ PrevGot(c) < LastGot(c)

\* C7: bounded capacity. Neither queue ever holds more than Capacity items;
\* a push onto the full scancode queue or the full registry fails, is
\* reported, and leaves the contents as they were.
C7_BoundedCapacity ==
    [][ /\ Len(scancode_queue) <= Capacity /\ Len(scancode_queue') <= Capacity
        /\ Len(waker_queue) <= Capacity /\ Len(waker_queue') <= Capacity
        /\ (AddScancodeStep /\ ~ArrayQueuePushOk(scancode_queue))
              => /\ scancode_queue' = scancode_queue
                 /\ warnings'.add_scancode
                       = warnings.add_scancode + Len(waker_queue)
        /\ \A c \in Consumers :
              (pc[c] = "register" /\ pc'[c] = "recheck"
                                  /\ ~ArrayQueuePushOk(waker_queue))
                 => /\ waker_queue' = waker_queue
                    /\ warnings'.poll_next = warnings.poll_next + 1 ]_vars

C7_Witness ==
    /\ warnings.add_scancode > 0
    /\ warnings.poll_next > 0

\* C8: registry invariant. Between operations, every suspended consumer
\* that was not woken has a handle in the registry, and every consumer with
\* a handle in the registry is one whose last poll returned Pending.
C8_RegistryInvariant ==
    \A c \in Consumers :
        /\ Suspended(c) => c \in TasksOf(waker_queue)
        /\ (c \in TasksOf(waker_queue) /\ ~MidOperation(c)) => pc[c] = "pending"

\* C9: at most one wake per registration. No handle created by a poll has
\* its wake operation invoked more than once (wakes are observed of the
\* handles of consumer 1).
C9_AtMostOneWake ==
    \A h \in DOMAIN wake_count : wake_count[h] <= 1

C9_Witness ==
    \E c \in Consumers :
        /\ registrations[c] >= 2
        /\ \A k \in 1..2 :
              /\ [task |-> c, reg |-> k] \in DOMAIN wake_count
              /\ wake_count[[task |-> c, reg |-> k]] = 1

\* C10: add_scancode wakes all prior registrants. The task of every handle
\* that is in the registry when add_scancode is called has been woken when
\* the call returns, whatever the fill level of the scancode queue.
C10_WakesAllPrior ==
    [][AddScancodeStep =>
          \A i \in 1..Len(waker_queue) : notified'[waker_queue[i].task]]_vars

\* c is suspended with no handle of its own in the registry: add_scancode
\* wakes only the tasks whose handles it pops, and c pushes a handle only
\* when it is polled, so no later add_scancode call wakes c
Stranded(c) == Suspended(c) /\ \A i \in 1..Len(waker_queue) : waker_queue[i].task # c

\* C11: suspended consumers are resumable. No consumer is ever suspended
\* (its poll returned Pending, it was not woken, it was not cancelled) in a
\* state from which no later add_scancode call can wake it.
C11_SuspendedResumable ==
    \A c \in Consumers : ~Stranded(c)

\* once stranded, a consumer stays stranded whatever runs afterwards
C11_StrandedForever ==
    [][\A c \in Consumers : Stranded(c) => Stranded(c)']_vars

\* C12: initialization order. add_scancode called before both OnceCells
\* are initialized aborts (the kernel halts: no step follows) and the abort
\* changes nothing: the cells stay as they were, nothing is pushed or
\* popped and no consumer is woken. Until both cells are initialized no
\* consumer is inside or past a poll, so the expects of poll_next cannot
\* fail, and the only steps are those of ScancodeStream::new and the abort.
C12_InitializationOrder ==
    [][ /\ ~panicked
        /\ ~(scancode_init /\ waker_init) =>
              /\ \A c \in Consumers : pc[c] \in {"new", "new2"}
              /\ panicked' \/ \E c \in Consumers : pc'[c] # pc[c]
              /\ scancode_queue' = <<>> /\ waker_queue' = <<>>
              /\ notified' = notified
              /\ produced' = produced
        /\ panicked' =>
              /\ ~(scancode_init /\ waker_init)
              /\ UNCHANGED <<scancode_init, waker_init, scancode_queue,
                             waker_queue, pc, notified, produced>> ]_vars

\* add_scancode has aborted between the two init_once calls of the first
\* ScancodeStream::new
C12_Witness ==
    /\ panicked
    /\ scancode_init /\ ~waker_init
    /\ scancode_queue = <<>> /\ waker_queue = <<>>

\* C13: data loss is observable. An add_scancode call leaves no copy of its
\* scancode in the queue only when the queue was full, and leaves fewer
\* copies than there were handles in the registry only when the queue
\* became full; the call prints one diagnostic for every copy it dropped,
\* so it never discards its scancode without a diagnostic.
C13_DataLossObservable ==
    [][AddScancodeStep =>
          /\ Copies(scancode_queue', produced') = 0 =>
                /\ Len(scancode_queue) = Capacity
                /\ warnings'.add_scancode > warnings.add_scancode
          /\ Copies(scancode_queue', produced') < Len(waker_queue) =>
                /\ Len(scancode_queue') = Capacity
                /\ warnings'.add_scancode = warnings.add_scancode
                      + Len(waker_queue) - Copies(scancode_queue', produced')
       ]_vars

\* C14: producer termination. Every add_scancode call runs its drain loop
\* at most L times, L the number of handles in the registry when it was
\* called, and L is at most Capacity.
C14_ProducerTermination ==
    [][AddScancodeStep =>
          /\ last_call'.handles = Len(waker_queue)
          /\ last_call'.iterations <= last_call'.handles
          /\ last_call'.handles <= Capacity ]_vars

\* a call that found the registry full and ran Capacity iterations
C14_Witness ==
    /\ produced > 0
    /\ last_call.handles = Capacity
    /\ last_call.iterations = Capacity

\* C15: cancelled consumers are inert. An add_scancode call that finds a
\* handle of a cancelled consumer in the registry does not fail, leaves
\* the cancelled consumer as it was (the wake does nothing), pops every
\* handle that was in the registry and wakes the consumer of every other
\* one; a cancelled consumer takes no further step.
C15_CancelledInert ==
    [][ /\ \A c \in Consumers :
              Cancelled(c) => (pc'[c] = pc[c] /\ notified'[c] = notified[c])
        /\ (AddScancodeStep
              /\ \E i \in 1..Len(waker_queue) : Cancelled(waker_queue[i].task))
              => /\ ~panicked'
                 /\ waker_queue' = <<>>
                 /\ \A i \in 1..Len(waker_queue) :
                       ~Cancelled(waker_queue[i].task)
                          => notified'[waker_queue[i].task] ]_vars

\* a call has popped the handle of a cancelled consumer, left that consumer
\* un-woken and woken another one
C15_Witness ==
    /\ last_call.inert > 0
    /\ waker_queue = <<>>
    /\ \E c \in Consumers : Cancelled(c) /\ ~notified[c]
    /\ \E c \in Consumers : pc[c] = "pending" /\ notified[c]

\* C16: queue-full handling. In every add_scancode call a push onto the
\* full scancode queue drops that copy only: the bytes already queued stay,
\* in order, at the head, one diagnostic is printed per dropped copy, and
\* the drain loop goes on, one iteration per handle, so that the registry
\* is empty when the call returns.
C16_QueueFullHandling ==
    [][AddScancodeStep =>
          /\ waker_queue' = <<>>
          /\ last_call'.iterations = Len(waker_queue)
          /\ Len(scancode_queue') >= Len(scancode_queue)
          /\ SubSeq(scancode_queue', 1, Len(scancode_queue)) = scancode_queue
          /\ Len(scancode_queue') = Len(scancode_queue) + Len(waker_queue)
                                       - last_call'.dropped
          /\ last_call'.dropped > 0 => Len(scancode_queue') = Capacity
          /\ warnings'.add_scancode
                = warnings.add_scancode + last_call'.dropped ]_vars

\* a call has dropped a copy on the full queue and emptied the registry
C16_Witness ==
    /\ last_call.dropped > 0
    /\ last_call.iterations = last_call.handles
    /\ warnings.add_scancode > 0
    /\ Len(scancode_queue) = Capacity
    /\ waker_queue = <<>>

\* the handle the current poll of c pushed in step 2 (handles are numbered
\* per consumer only where registrations are observed)
OwnHandle(c) ==
    [task |-> c, reg |-> IF registrations[c] = 0 THEN 1 ELSE registrations[c]]

\* C17: cleanup removes only the poller's own handle. Whenever a poll of c
\* whose re-check found a byte pops a handle from the front of the
\* registry, that handle is the one this poll pushed; the handle of
\* another consumer, or of an earlier poll, is never taken without a wake
\* (handles are told apart for consumer 1).
C17_CleanupOwnHandle ==
    [][\A c \in Consumers :
          (pc[c] = "cleanup" /\ pc'[c] = "ready"
                             /\ Len(waker_queue') < Len(waker_queue))
             => /\ Head(waker_queue) = OwnHandle(c)
                /\ waker_queue' = Tail(waker_queue) ]_vars

\* a poll whose re-check found a byte is about to pop the handle it pushed,
\* the consumer's second
C17_Witness ==
    /\ pc[1] = "cleanup"
    /\ registrations[1] >= 2
    /\ waker_queue = <<OwnHandle(1)>>

\* a consumer that is not inside a poll pops the scancode queue: the fast
\* path of a poll that found the queue not empty
FastPathPop ==
    /\ Len(scancode_queue') < Len(scancode_queue)
    /\ \A c \in Consumers : pc[c] # "recheck"

\* C18: fast path effect. A poll that finds the queue not empty returns
\* Ready with the byte at the head, removes that byte and no other (the
\* rest keeps its order) and leaves the registry as it was; a poll goes on
\* to the slow path, and so pushes a handle, only when its first pop found
\* the queue empty.
C18_FastPathEffect ==
    [][ /\ FastPathPop =>
              /\ last_ready'.path = "fast"
              /\ last_ready'.scancode = Head(scancode_queue).scancode
              /\ last_ready'.event = Head(scancode_queue).event
              /\ pc'[last_ready'.task] = "ready"
              /\ scancode_queue' = Tail(scancode_queue)
              /\ waker_queue' = waker_queue
        /\ \A c \in Consumers :
              (pc[c] # "register" /\ pc'[c] = "register")
                 => scancode_queue = <<>>
        /\ Len(waker_queue') > Len(waker_queue) =>
              \E c \in Consumers :
                 /\ pc[c] = "register" /\ pc'[c] = "recheck"
                 /\ waker_queue' = Append(waker_queue, NewWaker(c)) ]_vars

\* a fast-path poll has returned a byte while another byte stayed queued
\* and a handle stayed in the registry
C18_Witness ==
    /\ last_ready.path = "fast"
    /\ scancode_queue # <<>>
    /\ waker_queue # <<>>

\* C19: idempotent initialization. The init_once calls of the first
\* ScancodeStream::new create the two queues empty; those of every later
\* ScancodeStream::new, in whatever state, leave the contents of both
\* queues as they are.
C19_IdempotentInit ==
    [][\A c \in Consumers :
          /\ (pc[c] = "new" /\ pc'[c] = "new2") =>
                /\ scancode_init'
                /\ scancode_queue'
                      = IF scancode_init THEN scancode_queue ELSE <<>>
                /\ waker_queue' = waker_queue /\ waker_init' = waker_init
          /\ (pc[c] = "new2" /\ pc'[c] = "ready") =>
                /\ waker_init'
                /\ waker_queue' = IF waker_init THEN waker_queue ELSE <<>>
                /\ scancode_queue' = scancode_queue
                /\ scancode_init' = scancode_init ]_vars

\* a later ScancodeStream::new is between its two init_once calls while
\* the scancode queue is full
C19_Witness ==
    \E c \in Consumers :
        /\ pc[c] = "new2"
        /\ Len(scancode_queue) = Capacity

\* the consumers whose ScancodeStream exists
Streams == {c \in Consumers : pc[c] \notin {"new", "new2"}}

\* C20: occupancy bound. The scancode queue and the registry together never
\* hold more items than there are consumer streams; hence, as long as the
\* streams are no more than Capacity, no push fails and no overflow
\* diagnostic is printed.
C20_OccupancyBound ==
    /\ Len(scancode_queue) + Len(waker_queue) <= Cardinality(Streams)
    /\ Cardinality(Streams) <= Capacity => NoOverflow

====
